---- MODULE Spec2Model ----
(***************************************************************************)
(* A model of scripts/fetch_hubspot_journeys.py: one batch run that looks  *)
(* up CRM contacts for the roster's emails, pages through all CRM deals,   *)
(* indexes the deals by name tokens, builds one journey per tenant, sorts  *)
(* the journeys and renders the report.                                    *)
(*                                                                         *)
(* Python str values are sequences of one-character strings, so that       *)
(* lower(), strip(), split(), rsplit(), "in" and "<" are computed as       *)
(* Python computes them.  Stage codes, lifecycle labels and deal ids are   *)
(* atomic strings: the program only compares them for equality.            *)
(***************************************************************************)
EXTENDS Integers, Sequences, FiniteSets, TLC

\* Python None for an atomic value, and for a value that is a str elsewhere.
None == "<None>"
NoneStr == <<None>>

\* Python truthiness of an optional str: None and "" are falsy.
Truthy(s) == s # NoneStr /\ s # <<>>

\* a or b, for optional strs
OrElse(a, b) == IF Truthy(a) THEN a ELSE b

(***************************************************************************)
(* Characters                                                              *)
(***************************************************************************)
UpperChars == <<"A","B","C","D","E","F","G","H","I","J","K","L","M",
                "N","O","P","Q","R","S","T","U","V","W","X","Y","Z">>
LowerChars == <<"a","b","c","d","e","f","g","h","i","j","k","l","m",
                "n","o","p","q","r","s","t","u","v","w","x","y","z">>
DigitChars == <<"0","1","2","3","4","5","6","7","8","9">>

\* The characters the inputs use, in code point order (str comparison).
AsciiChars == <<"\t", " ", "(", ")", "+", "-", ".">> \o DigitChars
              \o <<":", "@">> \o UpperChars \o LowerChars

Ord(c) == CHOOSE i \in 1..Len(AsciiChars) : AsciiChars[i] = c

Whitespace == {" ", "\t"}

IsUpper(c) == \E i \in 1..Len(UpperChars) : UpperChars[i] = c
IsLower(c) == \E i \in 1..Len(LowerChars) : LowerChars[i] = c
IsCased(c) == IsUpper(c) \/ IsLower(c)
IsDigit(c) == \E i \in 1..Len(DigitChars) : DigitChars[i] = c

LowerChar(c) ==
  IF IsUpper(c)
    THEN LowerChars[CHOOSE i \in 1..Len(UpperChars) : UpperChars[i] = c]
    ELSE c

UpperChar(c) ==
  IF IsLower(c)
    THEN UpperChars[CHOOSE i \in 1..Len(LowerChars) : LowerChars[i] = c]
    ELSE c

DigitVal(c) == (CHOOSE i \in 1..Len(DigitChars) : DigitChars[i] = c) - 1

(***************************************************************************)
(* str methods                                                             *)
(***************************************************************************)
\* s.lower()
Lower(s) == [i \in 1..Len(s) |-> LowerChar(s[i])]

\* s.title(): a cased character is upper-cased after an uncased one
Title(s) ==
  [i \in 1..Len(s) |->
     IF i = 1 \/ ~IsCased(s[i - 1]) THEN UpperChar(s[i]) ELSE LowerChar(s[i])]

RECURSIVE LStrip(_)
LStrip(s) ==
  IF s # <<>> /\ Head(s) \in Whitespace THEN LStrip(Tail(s)) ELSE s

RECURSIVE RStrip(_)
RStrip(s) ==
  IF s # <<>> /\ s[Len(s)] \in Whitespace
    THEN RStrip(SubSeq(s, 1, Len(s) - 1))
    ELSE s

\* s.strip()
Strip(s) == RStrip(LStrip(s))

RECURSIVE SplitAcc(_, _, _)
SplitAcc(s, cur, acc) ==
  IF s = <<>>
    THEN IF cur = <<>> THEN acc ELSE Append(acc, cur)
    ELSE IF Head(s) \in Whitespace
      THEN SplitAcc(Tail(s), <<>>, IF cur = <<>> THEN acc ELSE Append(acc, cur))
      ELSE SplitAcc(Tail(s), Append(cur, Head(s)), acc)

\* s.split(): the words between runs of whitespace
Split(s) == SplitAcc(s, <<>>, <<>>)

RECURSIVE SplitOnAcc(_, _, _, _)
SplitOnAcc(s, c, cur, acc) ==
  IF s = <<>>
    THEN Append(acc, cur)
    ELSE IF Head(s) = c
      THEN SplitOnAcc(Tail(s), c, <<>>, Append(acc, cur))
      ELSE SplitOnAcc(Tail(s), c, Append(cur, Head(s)), acc)

\* s.split(c) for a one-character separator: empty pieces are kept
SplitOn(s, c) == SplitOnAcc(s, c, <<>>, <<>>)

\* sub in s
Contains(sub, s) ==
  \E i \in 0..(Len(s) - Len(sub)) : SubSeq(s, i + 1, i + Len(sub)) = sub

\* s.endswith(suf)
EndsWith(s, suf) ==
  Len(s) >= Len(suf) /\ SubSeq(s, Len(s) - Len(suf) + 1, Len(s)) = suf

\* s.rsplit(sep, 1)[0]: what precedes the last occurrence of sep
RSplitHead(s, sep) ==
  IF Contains(sep, s)
    THEN LET at == {i \in 1..(Len(s) - Len(sep) + 1) :
                      SubSeq(s, i, i + Len(sep) - 1) = sep}
             last == CHOOSE i \in at : \A k \in at : k <= i
         IN  SubSeq(s, 1, last - 1)
    ELSE s

RECURSIVE ReplaceZ(_)
\* s.replace("Z", "+00:00")
ReplaceZ(s) ==
  IF s = <<>> THEN <<>>
  ELSE IF Head(s) = "Z"
    THEN <<"+","0","0",":","0","0">> \o ReplaceZ(Tail(s))
    ELSE <<Head(s)>> \o ReplaceZ(Tail(s))

RECURSIVE StrLess(_, _)
\* a < b on strs: lexicographic by code point
StrLess(a, b) ==
  IF b = <<>> THEN FALSE
  ELSE IF a = <<>> THEN TRUE
  ELSE IF Head(a) = Head(b) THEN StrLess(Tail(a), Tail(b))
  ELSE Ord(Head(a)) < Ord(Head(b))

(***************************************************************************)
(* datetime.fromisoformat and timedelta                                    *)
(***************************************************************************)
AllDigits(s) == \A i \in 1..Len(s) : IsDigit(s[i])

RECURSIVE Num(_)
Num(s) == IF s = <<>> THEN 0 ELSE 10 * Num(SubSeq(s, 1, Len(s) - 1)) + DigitVal(s[Len(s)])

IsLeap(y) == y % 4 = 0 /\ (y % 100 # 0 \/ y % 400 = 0)

DaysInMonth(y, m) ==
  IF m = 2 THEN (IF IsLeap(y) THEN 29 ELSE 28)
  ELSE IF m \in {4, 6, 9, 11} THEN 30 ELSE 31

RECURSIVE DaysBeforeMonth(_, _)
DaysBeforeMonth(y, m) ==
  IF m = 1 THEN 0 ELSE DaysBeforeMonth(y, m - 1) + DaysInMonth(y, m - 1)

\* date.toordinal(): day number, 0001-01-01 is day 1
ToOrdinal(y, m, d) ==
  (y - 1) * 365 + ((y - 1) \div 4) - ((y - 1) \div 100) + ((y - 1) \div 400)
    + DaysBeforeMonth(y, m) + d

ParseError == [ok |-> FALSE]

\* "YYYY-MM-DD"
DateOk(s) ==
  /\ Len(s) = 10
  /\ AllDigits(SubSeq(s, 1, 4)) /\ s[5] = "-"
  /\ AllDigits(SubSeq(s, 6, 7)) /\ s[8] = "-"
  /\ AllDigits(SubSeq(s, 9, 10))
  /\ LET y == Num(SubSeq(s, 1, 4))
         m == Num(SubSeq(s, 6, 7))
         d == Num(SubSeq(s, 9, 10))
     IN  y >= 1 /\ m \in 1..12 /\ d >= 1 /\ d <= DaysInMonth(y, m)

\* "HH:MM:SS"
TimeOk(s) ==
  /\ Len(s) = 8
  /\ AllDigits(SubSeq(s, 1, 2)) /\ s[3] = ":"
  /\ AllDigits(SubSeq(s, 4, 5)) /\ s[6] = ":"
  /\ AllDigits(SubSeq(s, 7, 8))
  /\ Num(SubSeq(s, 1, 2)) <= 23
  /\ Num(SubSeq(s, 4, 5)) <= 59
  /\ Num(SubSeq(s, 7, 8)) <= 59

\* "+HH:MM" or "-HH:MM"
OffsetOk(s) ==
  /\ Len(s) = 6
  /\ s[1] \in {"+", "-"}
  /\ AllDigits(SubSeq(s, 2, 3)) /\ s[4] = ":"
  /\ AllDigits(SubSeq(s, 5, 6))
  /\ Num(SubSeq(s, 2, 3)) <= 23
  /\ Num(SubSeq(s, 5, 6)) <= 59

\* ".fff" or ".ffffff"
FractionOk(s) ==
  /\ Len(s) \in {4, 7}
  /\ s[1] = "."
  /\ AllDigits(Tail(s))

FractionMicros(s) ==
  IF Len(s) = 4 THEN 1000 * Num(Tail(s)) ELSE Num(Tail(s))

OffsetSeconds(s) ==
  (IF s[1] = "-" THEN -1 ELSE 1)
    * (3600 * Num(SubSeq(s, 2, 3)) + 60 * Num(SubSeq(s, 5, 6)))

\* The tail of a timestamp after "YYYY-MM-DD?HH:MM:SS": [.fff[fff]][+HH:MM]
TailOk(r) ==
  \/ r = <<>>
  \/ FractionOk(r)
  \/ OffsetOk(r)
  \/ Len(r) > 6 /\ FractionOk(SubSeq(r, 1, Len(r) - 6))
                /\ OffsetOk(SubSeq(r, Len(r) - 5, Len(r)))

TailHasOffset(r) == Len(r) >= 6 /\ OffsetOk(SubSeq(r, Len(r) - 5, Len(r)))

TailFraction(r) ==
  IF TailHasOffset(r) THEN SubSeq(r, 1, Len(r) - 6) ELSE r

\* datetime.fromisoformat(s) for YYYY-MM-DD[?HH:MM:SS[.fff[fff]][+HH:MM]];
\* every other string of the inputs raises ValueError.
fromisoformat(s) ==
  IF Len(s) = 10 /\ DateOk(s)
    THEN [ok |-> TRUE, aware |-> FALSE,
          ord |-> ToOrdinal(Num(SubSeq(s, 1, 4)), Num(SubSeq(s, 6, 7)),
                            Num(SubSeq(s, 9, 10))),
          sec |-> 0, us |-> 0, off |-> 0]
  ELSE IF /\ Len(s) >= 19
          /\ DateOk(SubSeq(s, 1, 10))
          /\ TimeOk(SubSeq(s, 12, 19))
          /\ TailOk(SubSeq(s, 20, Len(s)))
    THEN LET r == SubSeq(s, 20, Len(s))
             f == TailFraction(r)
         IN  [ok |-> TRUE, aware |-> TailHasOffset(r),
              ord |-> ToOrdinal(Num(SubSeq(s, 1, 4)), Num(SubSeq(s, 6, 7)),
                                Num(SubSeq(s, 9, 10))),
              sec |-> 3600 * Num(SubSeq(s, 12, 13)) + 60 * Num(SubSeq(s, 15, 16))
                        + Num(SubSeq(s, 18, 19)),
              us |-> IF f = <<>> THEN 0 ELSE FractionMicros(f),
              off |-> IF TailHasOffset(r)
                        THEN OffsetSeconds(SubSeq(r, Len(r) - 5, Len(r)))
                        ELSE 0]
  ELSE ParseError

\* (dt2 - dt1).days: timedelta normalises to 0 <= seconds < 86400 and
\* 0 <= microseconds < 1000000, so days is the floor of the difference.
TimedeltaDays(dt1, dt2) ==
  LET secs == (dt2.sec - dt2.off) - (dt1.sec - dt1.off)
      us == dt2.us - dt1.us
      FloorDiv(a, b) == (a - (a % b)) \div b
  IN  (dt2.ord - dt1.ord) + FloorDiv(secs + FloorDiv(us, 1000000), 86400)

Abs(n) == IF n < 0 THEN -n ELSE n

\* days_between(d1, d2): <<n>> for the int n, <<>> for None
days_between(d1, d2) ==
  LET dt1 == fromisoformat(ReplaceZ(d1))
      dt2 == fromisoformat(ReplaceZ(d2))
  IN  IF ~dt1.ok \/ ~dt2.ok THEN <<>>
      ELSE IF dt1.aware # dt2.aware THEN <<>>
      ELSE <<Abs(TimedeltaDays(dt1, dt2))>>

(***************************************************************************)
(* Program constants and records                                           *)
(***************************************************************************)
STAGE_MAP ==
  [code \in {"appointmentscheduled", "1499838171", "qualifiedtobuy",
             "presentationscheduled", "1955958510", "decisionmakerboughtin",
             "1955580622", "1559099077", "1499827945", "1731122907",
             "closedwon", "contractsent", "closedlost", "1499784890",
             "1499784891", "1499827944", "1718686448", "2025131723"} |->
     CASE code = "appointmentscheduled" -> "Prospect"
       [] code = "1499838171" -> "Approached"
       [] code = "qualifiedtobuy" -> "Lead"
       [] code = "presentationscheduled" -> "Demo Scheduled"
       [] code = "1955958510" -> "No-Show/Reschedule Demo"
       [] code = "decisionmakerboughtin" -> "Demo Follow-Up"
       [] code = "1955580622" -> "Budgetary quote sent"
       [] code = "1559099077" -> "Payment Link Sent"
       [] code = "1499827945" -> "Free Trial"
       [] code = "1731122907" -> "Freemium"
       [] code = "closedwon" -> "Closed Won"
       [] code = "contractsent" -> "Ping Later"
       [] code = "closedlost" -> "Closed Lost"
       [] code = "1499784890" -> "Churn"
       [] code = "1499784891" -> "Unlikely"
       [] code = "1499827944" -> "On Hold"
       [] code = "1718686448" -> "Internal+Friends and Family"
       [] code = "2025131723" -> "Interested in a pilot"]

\* STAGE_MAP.get(code, default)
StageGet(code, default) ==
  IF code \in DOMAIN STAGE_MAP THEN STAGE_MAP[code] ELSE default

\* A roster row (csv.DictReader): every field is a str
User(email, name, tenant, created) ==
  [Email |-> email, Name |-> name, Tenant |-> tenant, Created |-> created]

\* A deal object of the CRM: id and the properties the program reads
Deal(id, dealname, dealstage, createdate, closedate) ==
  [id |-> id, dealname |-> dealname, dealstage |-> dealstage,
   createdate |-> createdate, closedate |-> closedate]

\* A contact object of the CRM: the properties the program reads
Contact(email, company, lifecyclestage, first_timestamp, source, lead_date, opportunity_date, customer_date) ==
  [email |-> email, company |-> company, lifecyclestage |-> lifecyclestage,
   hs_analytics_first_timestamp |-> first_timestamp,
   hs_analytics_source |-> source,
   hs_lifecyclestage_lead_date |-> lead_date,
   hs_lifecyclestage_opportunity_date |-> opportunity_date,
   hs_lifecyclestage_customer_date |-> customer_date]

\* dict[key] = value, and defaultdict(list)[key].append(value)
EmptyMap == [k \in {} |-> None]
Put(m, k, v) == [x \in DOMAIN m \cup {k} |-> IF x = k THEN v ELSE m[x]]
AppendAt(m, k, v) == Put(m, k, IF k \in DOMAIN m THEN Append(m[k], v) ELSE <<v>>)

Range(s) == {s[i] : i \in 1..Len(s)}

\* sorted(S) for a set of strs
RECURSIVE SortedStrs(_)
SortedStrs(S) ==
  IF S = {} THEN <<>>
  ELSE LET m == CHOOSE x \in S : \A y \in S : ~StrLess(y, x)
       IN  <<m>> \o SortedStrs(S \ {m})

\* list.sort(key=...) is stable and ascending: the order of the positions
\* 1..Len(keys) of a list whose elements have the str keys `keys`
RECURSIVE InsertByKey(_, _, _)
InsertByKey(sorted, i, keys) ==
  IF sorted = <<>> THEN <<i>>
  ELSE IF StrLess(keys[i], keys[sorted[Len(sorted)]])
    THEN Append(InsertByKey(SubSeq(sorted, 1, Len(sorted) - 1), i, keys),
                sorted[Len(sorted)])
    ELSE Append(sorted, i)

RECURSIVE SortOrder(_, _)
SortOrder(n, keys) ==
  IF n = 0 THEN <<>> ELSE InsertByKey(SortOrder(n - 1, keys), n, keys)

\* s after s.sort(key=...), keys[i] being the key of s[i]
SortedBy(s, keys) ==
  LET order == SortOrder(Len(s), keys) IN [k \in 1..Len(s) |-> s[order[k]]]

(***************************************************************************)
(* The deal index (main, step 3)                                           *)
(***************************************************************************)
SepDash == <<" ", "-", " ">>

\* The company key of a deal: its name up to the last " - ", lower-cased
CompanyPart(d) ==
  LET dname == Strip(OrElse(d.dealname, <<>>))
  IN  IF Contains(SepDash, dname)
        THEN Lower(Strip(RSplitHead(dname, SepDash)))
        ELSE Lower(dname)

RECURSIVE IndexWords(_, _, _)
IndexWords(index, words, d) ==
  IF words = <<>> THEN index
  ELSE IndexWords(IF Len(Head(words)) > 3
                    THEN AppendAt(index, Head(words), d)
                    ELSE index,
                  Tail(words), d)

\* One deal is appended under its company key and under each long word of it
IndexDeal(index, d) ==
  IndexWords(AppendAt(index, CompanyPart(d), d), Split(CompanyPart(d)), d)

RECURSIVE BuildDealIndex(_, _)
BuildDealIndex(index, deals) ==
  IF deals = <<>> THEN index
  ELSE BuildDealIndex(IndexDeal(index, Head(deals)), Tail(deals))

(***************************************************************************)
(* Matching the deals of a company (main, step 4)                          *)
(***************************************************************************)
Ids(ds) == {ds[i].id : i \in 1..Len(ds)}

\* Relevant without the test on the words of the company name
RelevantFullNameOnly(cn_lower, d) ==
  Contains(cn_lower, Lower(OrElse(d.dealname, <<>>)))

\* The relevance test of the keyword match
Relevant(cn_lower, d) ==
  LET dname == Lower(OrElse(d.dealname, <<>>))
      words == Split(cn_lower)
  IN  \/ Contains(cn_lower, dname)
      \/ \E i \in 1..Len(words) : Len(words[i]) > 3 /\ Contains(words[i], dname)

RECURSIVE AddDealsUnseenIgnored(_, _, _, _)
\* AddDeals without the test on seen_ids
AddDealsUnseenIgnored(matching, candidates, cn_lower, guarded) ==
  IF candidates = <<>> THEN matching
  ELSE LET d == Head(candidates)
       IN  AddDealsUnseenIgnored(IF ~guarded \/ Relevant(cn_lower, d)
                                   THEN Append(matching, d)
                                   ELSE matching,
                                 Tail(candidates), cn_lower, guarded)

RECURSIVE AddDeals(_, _, _, _)
\* for d in candidates: append d unless its id is in seen_ids; seen_ids is
\* the set of the ids of matching_deals.  guarded: the relevance test applies.
AddDeals(matching, candidates, cn_lower, guarded) ==
  IF candidates = <<>> THEN matching
  ELSE LET d == Head(candidates)
       IN  AddDeals(IF (~guarded \/ Relevant(cn_lower, d)) /\ d.id \notin Ids(matching)
                      THEN Append(matching, d)
                      ELSE matching,
                    Tail(candidates), cn_lower, guarded)

\* Exact match on company name
ExactMatch(index, cn_lower) ==
  IF cn_lower \in DOMAIN index
    THEN AddDeals(<<>>, index[cn_lower], cn_lower, FALSE)
    ELSE <<>>

RECURSIVE KeywordMatch(_, _, _, _)
\* Keyword match, over the words of the company name in order
KeywordMatch(index, cn_lower, words, matching) ==
  IF words = <<>> THEN matching
  ELSE LET word == Head(words)
       IN  KeywordMatch(index, cn_lower, Tail(words),
                        IF Len(word) > 3 /\ word \in DOMAIN index
                          THEN AddDeals(matching, index[word], cn_lower, TRUE)
                          ELSE matching)

\* matching_deals of a company name
MatchDeals(index, company_name) ==
  LET cn_lower == Lower(OrElse(company_name, <<>>))
      exact == ExactMatch(index, cn_lower)
  IN  IF exact # <<>>
        THEN exact
        ELSE KeywordMatch(index, cn_lower, Split(cn_lower), exact)

\* deal_index after evaluating deal_index[key]: deal_index is a
\* defaultdict(list), whose subscript inserts a missing key with []
Subscript(index, key) ==
  IF key \in DOMAIN index THEN index ELSE Put(index, key, <<>>)

\* ExactLookup without the test "cn_lower in deal_index"
ExactLookupUnguarded(index, cn_lower) == Subscript(index, cn_lower)

\* deal_index after the exact match: subscripted only under the "in" test
ExactLookup(index, cn_lower) ==
  IF cn_lower \in DOMAIN index THEN Subscript(index, cn_lower) ELSE index

RECURSIVE KeywordLookups(_, _)
\* deal_index after the keyword match: subscripted only under the "in" test
KeywordLookups(index, words) ==
  IF words = <<>> THEN index
  ELSE LET word == Head(words)
       IN  KeywordLookups(IF Len(word) > 3 /\ word \in DOMAIN index
                            THEN Subscript(index, word)
                            ELSE index,
                          Tail(words))

\* deal_index after the matching of one company name
IndexAfterMatch(index, company_name) ==
  LET cn_lower == Lower(OrElse(company_name, <<>>))
      looked == ExactLookup(index, cn_lower)
  IN  IF ExactMatch(index, cn_lower) # <<>>
        THEN looked
        ELSE KeywordLookups(looked, Split(cn_lower))

(***************************************************************************)
(* Best deal                                                               *)
(***************************************************************************)
\* best_deal = None
NoDeal == Deal(None, NoneStr, None, NoneStr, NoneStr)

\* STAGE_MAP.get(d["properties"].get("dealstage", ""), "Unknown")
MappedStage(d) == StageGet(d.dealstage, "Unknown")

\* LosingStages without "Closed Lost"
LosingStagesShort == {"Unlikely", "Churn"}

LosingStages == {"Unlikely", "Churn", "Closed Lost"}

\* FirstWon with the break after the first deal, whatever its stage
FirstWonHeadOnly(deals) ==
  IF deals = <<>> THEN NoDeal
  ELSE IF MappedStage(Head(deals)) = "Closed Won" THEN Head(deals)
  ELSE NoDeal

RECURSIVE FirstWon(_)
FirstWon(deals) ==
  IF deals = <<>> THEN NoDeal
  ELSE IF MappedStage(Head(deals)) = "Closed Won" THEN Head(deals)
  ELSE FirstWon(Tail(deals))

RECURSIVE FirstActive(_)
FirstActive(deals) ==
  IF deals = <<>> THEN NoDeal
  ELSE IF MappedStage(Head(deals)) \notin LosingStages THEN Head(deals)
  ELSE FirstActive(Tail(deals))

BestDeal(matching_deals) ==
  LET won == FirstWon(matching_deals)
  IN  IF won # NoDeal THEN won
      ELSE IF matching_deals # <<>>
        THEN LET active == FirstActive(matching_deals)
             IN  IF active # NoDeal THEN active ELSE matching_deals[1]
      ELSE NoDeal

(***************************************************************************)
(* One tenant's journey (main, step 4)                                     *)
(***************************************************************************)
TruthyA(v) == v # None /\ v # ""

NoneLiteral == <<"N","o","n","e">>
GmailCom == <<"g","m","a","i","l",".","c","o","m">>
IcloudCom == <<"i","c","l","o","u","d",".","c","o","m">>
UnknownOpen == <<"U","n","k","n","o","w","n"," ","(">>
Sentinel == <<"9","9","9","9">>

\* [u["Email"].strip().lower() for u in users]
Emails(users) == [k \in 1..Len(users) |-> Lower(Strip(users[k].Email))]

\* The contacts found for the tenant's emails, in the order of the emails
TenantContacts(contacts, emails) ==
  LET found == SelectSeq(emails, LAMBDA e : e \in DOMAIN contacts)
  IN  [k \in 1..Len(found) |-> contacts[found[k]]]

RECURSIVE ContactCompany(_, _)
\* company_name after the loop over the tenant's contacts
ContactCompany(cs, company_name) ==
  IF cs = <<>> THEN company_name
  ELSE ContactCompany(Tail(cs),
                      IF ~Truthy(company_name) THEN Head(cs).company
                                               ELSE company_name)

RECURSIVE NameFallback(_)
\* The first Name of the roster that is neither empty nor "None"
NameFallback(users) ==
  IF users = <<>> THEN NoneStr
  ELSE IF Truthy(Head(users).Name) /\ Head(users).Name # NoneLiteral
    THEN Head(users).Name
    ELSE NameFallback(Tail(users))

EmailDomain(u) ==
  IF Contains(<<"@">>, u.Email) THEN SplitOn(u.Email, "@")[2] ELSE <<>>

RECURSIVE DomainFallback(_)
\* The leading label of the first email domain that is no free mail domain
DomainFallback(users) ==
  IF users = <<>> THEN NoneStr
  ELSE LET domain == EmailDomain(Head(users))
       IN  IF domain # <<>> /\ ~EndsWith(domain, GmailCom)
                            /\ ~EndsWith(domain, IcloudCom)
             THEN Title(SplitOn(domain, ".")[1])
             ELSE DomainFallback(Tail(users))

\* company_name of a tenant
CompanyName(tenant_id, users, cs) ==
  LET emails == Emails(users)
      c1 == ContactCompany(cs, NoneStr)
      c2 == IF Truthy(c1) THEN c1 ELSE NameFallback(users)
      c3 == IF Truthy(c2) THEN c2 ELSE DomainFallback(users)
  IN  IF Truthy(c3) THEN c3
      ELSE UnknownOpen
           \o (IF emails # <<>> THEN emails[1]
               ELSE SubSeq(tenant_id, 1, IF Len(tenant_id) < 8 THEN Len(tenant_id) ELSE 8))
           \o <<")">>

RECURSIVE FirstTouch(_, _)
\* [first_touch, first_touch_source] after the loop over the contacts
FirstTouch(cs, acc) ==
  IF cs = <<>> THEN acc
  ELSE LET ft == Head(cs).hs_analytics_first_timestamp
       IN  FirstTouch(Tail(cs),
             IF Truthy(ft) /\ (~Truthy(acc.first_touch) \/ StrLess(ft, acc.first_touch))
               THEN [first_touch |-> ft, source |-> Head(cs).hs_analytics_source]
               ELSE acc)

RECURSIVE CognitoSignup(_, _)
\* The earliest Created of the tenant's users
CognitoSignup(users, cognito_signup) ==
  IF users = <<>> THEN cognito_signup
  ELSE LET cd == Head(users).Created
       IN  CognitoSignup(Tail(users),
             IF Truthy(cd) /\ (~Truthy(cognito_signup) \/ StrLess(cd, cognito_signup))
               THEN cd ELSE cognito_signup)

RECURSIVE FirstSource(_, _)
FirstSource(cs, default) ==
  IF cs = <<>> THEN default
  ELSE IF TruthyA(Head(cs).hs_analytics_source) THEN Head(cs).hs_analytics_source
  ELSE FirstSource(Tail(cs), default)

RECURSIVE Lifecycle(_)
\* The first non-empty lifecyclestage, else "Unknown"
Lifecycle(cs) ==
  IF cs = <<>> THEN "Unknown"
  ELSE IF TruthyA(Head(cs).lifecyclestage) THEN Head(cs).lifecyclestage
  ELSE Lifecycle(Tail(cs))

RECURSIVE LastDate(_, _, _)
\* The last non-empty value of one lifecycle date property
LastDate(cs, prop, date) ==
  IF cs = <<>> THEN date
  ELSE LastDate(Tail(cs), prop, IF Truthy(Head(cs)[prop]) THEN Head(cs)[prop] ELSE date)

\* The journey of one tenant, with the loop's locals matching_deals, best_deal
Synthesize(tenant_id, users, contacts, index) ==
  LET emails == Emails(users)
      cs == TenantContacts(contacts, emails)
      company_name == CompanyName(tenant_id, users, cs)
      matching_deals == MatchDeals(index, company_name)
      touch == FirstTouch(cs, [first_touch |-> NoneStr, source |-> None])
      best_deal == BestDeal(matching_deals)
      has_best == best_deal # NoDeal
  IN  [company_name |-> company_name,
       matching_deals |-> matching_deals,
       best_deal |-> best_deal,
       journey |->
         [company |-> company_name,
          tenant_id |-> tenant_id,
          first_touch |-> touch.first_touch,
          source |-> FirstSource(cs, IF TruthyA(touch.source) THEN touch.source
                                                             ELSE "Unknown"),
          lifecycle_stage |-> Lifecycle(cs),
          lead_date |-> LastDate(cs, "hs_lifecyclestage_lead_date", NoneStr),
          opportunity_date |-> LastDate(cs, "hs_lifecyclestage_opportunity_date", NoneStr),
          customer_date |-> LastDate(cs, "hs_lifecyclestage_customer_date", NoneStr),
          cognito_signup |-> CognitoSignup(users, NoneStr),
          deal_stage |-> IF has_best
                           THEN StageGet(best_deal.dealstage, best_deal.dealstage)
                           ELSE None,
          deal_create_date |-> IF has_best THEN best_deal.createdate ELSE NoneStr,
          deal_close_date |-> IF has_best THEN best_deal.closedate ELSE NoneStr,
          contacts |-> [k \in 1..Len(users) |-> users[k].Email],
          hs_contacts |->
            [k \in 1..Len(cs) |->
               [email |-> cs[k].email,
                lifecycle |-> cs[k].lifecyclestage,
                first_touch |-> cs[k].hs_analytics_first_timestamp,
                source |-> cs[k].hs_analytics_source]],
          all_deals |->
            [k \in 1..Len(matching_deals) |->
               [name |-> matching_deals[k].dealname,
                stage |-> StageGet(matching_deals[k].dealstage,
                                   matching_deals[k].dealstage),
                created |-> matching_deals[k].createdate,
                closed |-> matching_deals[k].closedate]]]]

\* The sort key of a journey
SortKey(j) == OrElse(j.first_touch, OrElse(j.cognito_signup, Sentinel))

(***************************************************************************)
(* The report of one journey (main, step 5)                                *)
(***************************************************************************)
\* The timeline events of a journey, in the order they are appended
Events(j) ==
  LET Ev(date, label) == IF Truthy(date) THEN <<[date |-> date, label |-> label]>>
                                         ELSE <<>>
  IN  Ev(j.first_touch, "First Touch")
      \o Ev(j.lead_date, "Became Lead")
      \o Ev(j.deal_create_date, "Deal Created")
      \o Ev(j.opportunity_date, "Became Opportunity")
      \o Ev(j.cognito_signup, "Signed Up for Arda")
      \o Ev(j.customer_date, "Became Customer")
      \o Ev(j.deal_close_date, "Deal Closed")

\* What the report prints for a journey: the timeline labels in printed order,
\* whether the "No HubSpot data found for this tenant" line is printed, the
\* days of the two duration lines (<<>>: the line is not printed), and the
\* status lines.
Render(j) ==
  LET events == Events(j)
      sorted == SortedBy(events, [k \in 1..Len(events) |-> events[k].date])
  IN  [tenant_id |-> j.tenant_id,
       timeline |-> [k \in 1..Len(sorted) |-> sorted[k].label],
       no_data_line |-> events = <<>>,
       signup_days |->
         IF events # <<>> /\ Truthy(j.first_touch) /\ Truthy(j.cognito_signup)
           THEN days_between(j.first_touch, j.cognito_signup) ELSE <<>>,
       close_days |->
         IF events # <<>> /\ Truthy(j.first_touch) /\ Truthy(j.deal_close_date)
           THEN days_between(j.first_touch, j.deal_close_date) ELSE <<>>,
       lifecycle |-> j.lifecycle_stage,
       deal_stage |-> IF TruthyA(j.deal_stage) THEN j.deal_stage ELSE "No deal found"]

(***************************************************************************)
(* State                                                                   *)
(***************************************************************************)
VARIABLES
  API_TOKEN,        \* the bearer token of the environment, "" when unset
  cognito_users,    \* the external users of the roster
  cognito_tenants,  \* tenant id -> the users of the tenant
  remote_contacts,  \* the CRM's contacts
  remote_pages,     \* the CRM's deal pages: [results, next]; next = 0: none
  pc,               \* where main is
  requests,         \* the requests sent to the CRM so far
  stderr,           \* the HTTP errors logged so far, by number of the request
  unsent,           \* the emails of all_emails not yet in a search batch
  hs_contacts,      \* email -> contact (search_contacts_by_emails)
  after,            \* fetch_all_deals: the cursor, 0 for None
  page,             \* fetch_all_deals: the page counter
  all_deals,        \* the deals fetched
  deal_index,       \* token -> deals
  journeys,         \* the journeys built so far
  company_name,     \* the last tenant's company_name
  matching_deals,   \* the last tenant's matching_deals
  best_deal,        \* the last tenant's best_deal
  report,           \* what the report printed per journey
  total_days_to_signup

vars == <<API_TOKEN, cognito_users, cognito_tenants, remote_contacts,
          remote_pages, pc, requests, stderr, unsent, hs_contacts, after,
          page, all_deals, deal_index, journeys, company_name,
          matching_deals, best_deal, report, total_days_to_signup>>

inputs == <<API_TOKEN, cognito_users, cognito_tenants, remote_contacts,
            remote_pages>>

(***************************************************************************)
(* Bounds and input pools                                                  *)
(***************************************************************************)
MaxDeals == 2       \* deals of the CRM in the matching scenarios
MaxBestDeals == 3   \* deals of one company in the best-deal scenarios
MaxTenants == 2     \* tenants in the ordering scenarios
MaxPages == 3       \* deal pages of the CRM in the paging scenarios
MaxFetch == 4       \* page requests after which a cyclic paging is cut off
MaxUsers == 4       \* users in the batching scenarios

batch_size == 3

Acme == <<"A","c","m","e">>
AcmePilot == <<"A","c","m","e"," ","-"," ","P","i","l","o","t">>
AcmeToolsRenewal == <<"A","c","m","e"," ","T","o","o","l","s"," ","-"," ",
                      "R","e","n","e","w","a","l">>
ZetaInc == <<"Z","e","t","a"," ","I","n","c">>
AcmeToolsLower == <<"a","c","m","e"," ","t","o","o","l","s">>
AcmeToolsTrailing == <<"A","c","m","e"," ","T","o","o","l","s"," ">>
ToolsDepot == <<"T","o","o","l","s"," ","D","e","p","o","t">>
ToolsDepotPadded == <<" ","T","O","O","L","S"," ","D","e","p","o","t"," ","-"," ",
                      "A"," ","-"," ","B">>

\* 2024-01-01T12:00:00Z, 2024-01-02T00:00:00Z, 2024-01-03, "Jan 5"
TsNoon == <<"2","0","2","4","-","0","1","-","0","1","T",
            "1","2",":","0","0",":","0","0","Z">>
TsMidnight == <<"2","0","2","4","-","0","1","-","0","2","T",
                "0","0",":","0","0",":","0","0","Z">>
TsDate == <<"2","0","2","4","-","0","1","-","0","3">>
TsText == <<"J","a","n"," ","5">>

DealIds == <<"d1", "d2", "d3", "d4", "d5", "d6">>
StageCodes == {"closedwon", "closedlost", "1499784890", "1499784891",
               "qualifiedtobuy", None}

TenantId(k) == <<"t", DigitChars[k + 1]>>
ZetaEmail(k) == <<"u", DigitChars[k + 1], "@","z","e","t","a",".","i","o">>
GmailEmail(k) == <<"U", DigitChars[k + 1], "@","g","m","a","i","l",".","c","o","m">>

\* The deals of the matching scenarios: one-word and several-word company
\* keys, a key shared by two deals, an unrelated company, a deal without name,
\* a name with a leading blank, capitals and two " - "
DealPool ==
  {Deal("d1", Acme, "closedlost", TsDate, NoneStr),
   Deal("d2", AcmePilot, "closedwon", TsDate, TsDate),
   Deal("d3", AcmeToolsRenewal, "qualifiedtobuy", NoneStr, NoneStr),
   Deal("d4", ZetaInc, "1499784890", NoneStr, NoneStr),
   Deal("d5", NoneStr, None, NoneStr, NoneStr),
   Deal("d6", ToolsDepotPadded, "closedwon", NoneStr, NoneStr)}

\* Who the tenant of the matching scenarios is: the user's Name ("None" is
\* the roster's placeholder) and email, and the company of the user's
\* contact (NoContact: the CRM has no contact for the user)
NoContact == <<"-">>
IdentityPool ==
  {<<Acme, ZetaEmail(1), NoContact>>,
   <<AcmeToolsLower, ZetaEmail(1), NoContact>>,
   <<AcmeToolsTrailing, ZetaEmail(1), NoContact>>,
   <<ToolsDepot, ZetaEmail(1), NoContact>>,
   <<NoneLiteral, ZetaEmail(1), NoContact>>,
   <<NoneLiteral, GmailEmail(1), NoContact>>,
   <<Acme, ZetaEmail(1), AcmeToolsTrailing>>,
   <<NoneLiteral, ZetaEmail(1), NoneStr>>}

\* The Created column of the ordering scenarios
CreatedPool == {<<>>, TsNoon, TsDate, TsText}

\* hs_analytics_first_timestamp in the ordering scenarios
TouchPool == {NoContact, TsNoon, TsMidnight}

SeqsUpTo(S, n) == UNION {[1..k -> S] : k \in 0..n}

OnePage(deals) == <<[results |-> deals, next |-> 0]>>

\* tenants[tenant].append(row) for the rows with a tenant other than "None"
GroupByTenant(users) ==
  LET ids == {users[k].Tenant : k \in 1..Len(users)} \ {<<>>, NoneLiteral}
  IN  [t \in ids |-> SelectSeq(users, LAMBDA u : u.Tenant = t)]

(***************************************************************************)
(* Init: the roster is loaded, nothing was requested yet                   *)
(***************************************************************************)
Start(token, users, contacts, pages) ==
  /\ API_TOKEN = token
  /\ cognito_users = users
  /\ cognito_tenants = GroupByTenant(users)
  /\ remote_contacts = contacts
  /\ remote_pages = pages
  /\ pc = IF users = <<>> THEN "fetch" ELSE "search"
  /\ requests = <<>>
  /\ stderr = <<>>
  /\ unsent = {Lower(Strip(users[k].Email)) : k \in 1..Len(users)}
  /\ hs_contacts = EmptyMap
  /\ after = 0
  /\ page = 0
  /\ all_deals = <<>>
  /\ deal_index = EmptyMap
  /\ journeys = <<>>
  /\ company_name = NoneStr
  /\ matching_deals = <<>>
  /\ best_deal = NoDeal
  /\ report = <<>>
  /\ total_days_to_signup = <<>>

\* One tenant of one user; the company comes from the contact, the Name or
\* the email domain; up to MaxDeals deals of DealPool on one page
InitMatch ==
  \E who \in IdentityPool, deals \in SeqsUpTo(DealPool, MaxDeals) :
    Start("pat-1",
          <<User(who[2], who[1], TenantId(1), TsNoon)>>,
          IF who[3] = NoContact THEN <<>>
          ELSE <<Contact(Lower(who[2]), who[3], "lead", NoneStr, None,
                         NoneStr, NoneStr, NoneStr)>>,
          OnePage(deals))

\* One tenant named Acme; up to MaxBestDeals deals of Acme in any stages
InitBest ==
  \E stages \in SeqsUpTo(StageCodes, MaxBestDeals) :
    Start("pat-1",
          <<User(ZetaEmail(1), Acme, TenantId(1), TsNoon)>>,
          <<>>,
          OnePage([k \in 1..Len(stages) |->
                     Deal(DealIds[k], AcmePilot, stages[k], TsDate, NoneStr)]))

\* Up to MaxTenants tenants of one user each, with any Created and first touch
InitSort ==
  \E n \in 1..MaxTenants :
    \E created \in [1..n -> CreatedPool], touch \in [1..n -> TouchPool] :
      LET present == SelectSeq([k \in 1..n |-> k], LAMBDA k : touch[k] # NoContact)
      IN  Start("pat-1",
                [k \in 1..n |->
                   User(ZetaEmail(k), NoneLiteral, TenantId(k), created[k])],
                [i \in 1..Len(present) |->
                   Contact(ZetaEmail(present[i]), NoneStr, "customer",
                           touch[present[i]], "ORGANIC_SEARCH",
                           NoneStr, NoneStr, NoneStr)],
                OnePage(<<>>))

\* Up to MaxPages deal pages whose next cursors point anywhere, cycles
\* included; the second page has no results
InitFetch ==
  \E token \in {"", "pat-1"}, n \in 1..MaxPages :
    \E next \in [1..n -> 0..n] :
      Start(token,
            <<User(ZetaEmail(1), Acme, TenantId(1), TsNoon)>>,
            <<>>,
            [k \in 1..n |->
               [results |-> IF k = 2 THEN <<>>
                            ELSE <<Deal(DealIds[k], AcmePilot, "closedlost",
                                        TsDate, NoneStr)>>,
                next |-> next[k]]])

\* MaxUsers users in two tenants, so several search batches; any of the users
\* is a contact of the CRM
InitBatch ==
  \E token \in {"", "pat-1"}, known \in SUBSET (1..MaxUsers) :
    LET present == SelectSeq([k \in 1..MaxUsers |-> k], LAMBDA k : k \in known)
    IN  Start(token,
              [k \in 1..MaxUsers |->
                 User(IF k = 1 THEN GmailEmail(k) ELSE ZetaEmail(k), NoneLiteral,
                      TenantId(1 + (k % 2)), TsNoon)],
              [i \in 1..Len(present) |->
                 Contact(IF present[i] = 1 THEN Lower(GmailEmail(1))
                                           ELSE ZetaEmail(present[i]),
                         Acme, "lead", TsMidnight, "DIRECT_TRAFFIC",
                         TsMidnight, NoneStr, NoneStr)],
              OnePage(<<Deal("d1", Acme, "closedwon", TsDate, TsDate)>>))

Init == InitMatch \/ InitBest \/ InitSort \/ InitFetch \/ InitBatch

(***************************************************************************)
(* The CRM client                                                          *)
(***************************************************************************)
\* A request as it leaves the process: the Authorization header carries
\* "Bearer " and API_TOKEN, the body of a search the emails of the batch
Request(method, endpoint, emails) ==
  [method |-> method, endpoint |-> endpoint, bearer |-> API_TOKEN,
   emails |-> emails]

\* The contacts the CRM finds for the EQ filters of one batch
SearchResults(batch) ==
  SelectSeq(remote_contacts, LAMBDA c : Lower(c.email) \in batch)

RECURSIVE StoreContacts(_, _)
\* all_contacts[email] = c for the results that have an email
StoreContacts(all_contacts, results) ==
  IF results = <<>> THEN all_contacts
  ELSE LET email == Lower(OrElse(Head(results).email, <<>>))
       IN  StoreContacts(IF email # <<>> THEN Put(all_contacts, email, Head(results))
                                          ELSE all_contacts,
                         Tail(results))

\* The batches list(emails)[i:i + batch_size] can be: a set has no order
Batches ==
  {b \in SUBSET unsent :
     Cardinality(b) = (IF Cardinality(unsent) < batch_size
                         THEN Cardinality(unsent) ELSE batch_size)}

SearchSent(batch) ==
  /\ requests' = Append(requests,
                        Request("POST", "/crm/v3/objects/contacts/search", batch))
  /\ unsent' = unsent \ batch
  /\ pc' = IF unsent \ batch = {} THEN "fetch" ELSE "search"

\* One batch of search_contacts_by_emails, answered 2xx
SearchBatchOk ==
  /\ pc = "search"
  /\ \E batch \in Batches :
       /\ SearchSent(batch)
       /\ hs_contacts' = StoreContacts(hs_contacts, SearchResults(batch))
  /\ UNCHANGED <<inputs, stderr, after, page, all_deals, deal_index, journeys,
                 company_name, matching_deals, best_deal, report,
                 total_days_to_signup>>

\* One batch answered with an HTTP error: hubspot_post logs it, returns None
SearchBatchHttpError ==
  /\ pc = "search"
  /\ \E batch \in Batches : SearchSent(batch)
  /\ stderr' = Append(stderr, Len(requests) + 1)
  /\ UNCHANGED <<inputs, hs_contacts, after, page, all_deals, deal_index,
                 journeys, company_name, matching_deals, best_deal, report,
                 total_days_to_signup>>

\* One batch that times out: urlopen raises URLError or socket.timeout, which
\* hubspot_post does not catch, and no caller does
SearchBatchTimeout ==
  /\ pc = "search"
  /\ \E batch \in Batches :
       requests' = Append(requests,
                          Request("POST", "/crm/v3/objects/contacts/search", batch))
  /\ pc' = "aborted"
  /\ UNCHANGED <<inputs, stderr, unsent, hs_contacts, after, page, all_deals,
                 deal_index, journeys, company_name, matching_deals, best_deal,
                 report, total_days_to_signup>>

\* The page the CRM returns for a cursor
RemotePage(cursor) == remote_pages[IF cursor = 0 THEN 1 ELSE cursor]

\* FetchPageOk with all_deals = results in place of all_deals.extend(results)
FetchPageOkOverwrite ==
  /\ pc = "fetch"
  /\ page < MaxFetch
  /\ LET data == RemotePage(after)
     IN  /\ all_deals' = data.results
         /\ after' = data.next
         /\ pc' = IF data.next = 0 THEN "index" ELSE "fetch"
  /\ page' = page + 1
  /\ requests' = Append(requests, Request("GET", "/crm/v3/objects/deals", {}))
  /\ UNCHANGED <<inputs, stderr, unsent, hs_contacts, deal_index, journeys,
                 company_name, matching_deals, best_deal, report,
                 total_days_to_signup>>

\* One iteration of fetch_all_deals, answered 2xx
FetchPageOk ==
  /\ pc = "fetch"
  /\ page < MaxFetch
  /\ LET data == RemotePage(after)
     IN  /\ all_deals' = all_deals \o data.results
         /\ after' = data.next
         /\ pc' = IF data.next = 0 THEN "index" ELSE "fetch"
  /\ page' = page + 1
  /\ requests' = Append(requests, Request("GET", "/crm/v3/objects/deals", {}))
  /\ UNCHANGED <<inputs, stderr, unsent, hs_contacts, deal_index, journeys,
                 company_name, matching_deals, best_deal, report,
                 total_days_to_signup>>

\* One iteration answered with an HTTP error: hubspot_get returns None and
\* the loop ends
FetchPageHttpError ==
  /\ pc = "fetch"
  /\ page < MaxFetch
  /\ page' = page + 1
  /\ requests' = Append(requests, Request("GET", "/crm/v3/objects/deals", {}))
  /\ stderr' = Append(stderr, Len(requests) + 1)
  /\ pc' = "index"
  /\ UNCHANGED <<inputs, unsent, hs_contacts, after, all_deals, deal_index,
                 journeys, company_name, matching_deals, best_deal, report,
                 total_days_to_signup>>

\* One iteration that times out: the exception leaves main
FetchPageTimeout ==
  /\ pc = "fetch"
  /\ page < MaxFetch
  /\ page' = page + 1
  /\ requests' = Append(requests, Request("GET", "/crm/v3/objects/deals", {}))
  /\ pc' = "aborted"
  /\ UNCHANGED <<inputs, stderr, unsent, hs_contacts, after, all_deals,
                 deal_index, journeys, company_name, matching_deals, best_deal,
                 report, total_days_to_signup>>

(***************************************************************************)
(* main, steps 3 to 5                                                      *)
(***************************************************************************)
\* The tenants in the order of the loop: sorted(cognito_tenants.items())
TenantOrder == SortedStrs(DOMAIN cognito_tenants)

\* The loop that fills deal_index
BuildIndex ==
  /\ pc = "index"
  /\ deal_index' = BuildDealIndex(EmptyMap, all_deals)
  /\ pc' = IF TenantOrder = <<>> THEN "sort" ELSE "journeys"
  /\ UNCHANGED <<inputs, requests, stderr, unsent, hs_contacts, after, page,
                 all_deals, journeys, company_name, matching_deals, best_deal,
                 report, total_days_to_signup>>

\* One iteration of the loop over the tenants
BuildJourney ==
  /\ pc = "journeys"
  /\ LET tenant_id == TenantOrder[Len(journeys) + 1]
         built == Synthesize(tenant_id, cognito_tenants[tenant_id],
                             hs_contacts, deal_index)
     IN  /\ journeys' = Append(journeys, built.journey)
         /\ company_name' = built.company_name
         /\ matching_deals' = built.matching_deals
         /\ best_deal' = built.best_deal
         /\ deal_index' = IndexAfterMatch(deal_index, built.company_name)
  /\ pc' = IF Len(journeys) + 1 = Len(TenantOrder) THEN "sort" ELSE "journeys"
  /\ UNCHANGED <<inputs, requests, stderr, unsent, hs_contacts, after, page,
                 all_deals, report, total_days_to_signup>>

\* journeys.sort(...)
SortJourneys ==
  /\ pc = "sort"
  /\ journeys' = SortedBy(journeys, [k \in 1..Len(journeys) |-> SortKey(journeys[k])])
  /\ pc' = IF journeys = <<>> THEN "stats" ELSE "report"
  /\ UNCHANGED <<inputs, requests, stderr, unsent, hs_contacts, after, page,
                 all_deals, deal_index, company_name, matching_deals,
                 best_deal, report, total_days_to_signup>>

\* One iteration of the loop that prints the detailed report
ReportJourney ==
  /\ pc = "report"
  /\ report' = Append(report, Render(journeys[Len(report) + 1]))
  /\ pc' = IF Len(report) + 1 = Len(journeys) THEN "stats" ELSE "report"
  /\ UNCHANGED <<inputs, requests, stderr, unsent, hs_contacts, after, page,
                 all_deals, deal_index, journeys, company_name,
                 matching_deals, best_deal, total_days_to_signup>>

RECURSIVE DaysToSignup(_)
DaysToSignup(js) ==
  IF js = <<>> THEN <<>>
  ELSE (IF Truthy(Head(js).first_touch) /\ Truthy(Head(js).cognito_signup)
          THEN days_between(Head(js).first_touch, Head(js).cognito_signup)
          ELSE <<>>)
       \o DaysToSignup(Tail(js))

\* The aggregate statistics; main returns
Aggregate ==
  /\ pc = "stats"
  /\ total_days_to_signup' = DaysToSignup(journeys)
  /\ pc' = "done"
  /\ UNCHANGED <<inputs, requests, stderr, unsent, hs_contacts, after, page,
                 all_deals, deal_index, journeys, company_name,
                 matching_deals, best_deal, report>>

Next ==
  \/ SearchBatchOk
  \/ SearchBatchHttpError
  \/ SearchBatchTimeout
  \/ FetchPageOk
  \/ FetchPageHttpError
  \/ FetchPageTimeout
  \/ BuildIndex
  \/ BuildJourney
  \/ SortJourneys
  \/ ReportJourney
  \/ Aggregate

Spec == Init /\ [][Next]_vars

\* The paging scenarios alone. fetch_all_deals is a loop of one thread: while
\* it has an iteration to run, it runs it.
FetchStep == FetchPageOk \/ FetchPageHttpError \/ FetchPageTimeout

FairSpec == InitFetch /\ [][Next]_vars /\ WF_vars(FetchStep)

(***************************************************************************)
(* Properties                                                              *)
(***************************************************************************)
\* The last tenant's journey is the last of journeys until they are sorted
JustBuilt == journeys # <<>> /\ pc \in {"journeys", "sort"}

ClosedWonAt(i) ==
  /\ matching_deals[i].dealstage \in DOMAIN STAGE_MAP
  /\ STAGE_MAP[matching_deals[i].dealstage] = "Closed Won"

LosingAt(i) ==
  /\ matching_deals[i].dealstage \in DOMAIN STAGE_MAP
  /\ STAGE_MAP[matching_deals[i].dealstage] \in {"Unlikely", "Churn", "Closed Lost"}

\* C1: when some matched deal of the tenant is Closed Won, the best deal is
\* the first Closed Won deal of the matched sequence, whatever precedes it.
C1_FirstClosedWonSelected ==
  \A i \in 1..Len(matching_deals) :
    (ClosedWonAt(i) /\ \A k \in 1..(i - 1) : ~ClosedWonAt(k))
      => best_deal = matching_deals[i]

\* A Closed Won deal was selected over the active deal right before it
C1_Witness ==
  /\ journeys # <<>>
  /\ \E i \in 2..Len(matching_deals) :
       /\ ClosedWonAt(i)
       /\ \A k \in 1..(i - 1) : ~ClosedWonAt(k)
       /\ ~LosingAt(i - 1)
       /\ best_deal = matching_deals[i]

TimesUnder(key, id) ==
  Cardinality({i \in 1..Len(deal_index[key]) : deal_index[key][i].id = id})

\* C3: the matched deals of a tenant, of which all_deals is the projection,
\* hold every deal id at most once.
C3_AllDealsDistinct ==
  /\ \A i, k \in 1..Len(matching_deals) :
       i # k => matching_deals[i].id # matching_deals[k].id
  /\ JustBuilt =>
       LET all == journeys[Len(journeys)].all_deals
       IN  /\ Len(all) = Len(matching_deals)
           /\ \A i \in 1..Len(all) : all[i].name = matching_deals[i].dealname

\* A matched deal is registered twice under one token, and a matched deal is
\* registered under two tokens
C3_Witness ==
  /\ JustBuilt
  /\ \E i \in 1..Len(matching_deals) : \E key \in DOMAIN deal_index :
       TimesUnder(key, matching_deals[i].id) >= 2
  /\ \E i \in 1..Len(matching_deals) : \E k1, k2 \in DOMAIN deal_index :
       /\ k1 # k2
       /\ TimesUnder(k1, matching_deals[i].id) >= 1
       /\ TimesUnder(k2, matching_deals[i].id) >= 1

RECURSIVE FirstById(_, _)
\* The deals of a sequence without the repetitions of an id
FirstById(deals, seen) ==
  IF deals = <<>> THEN <<>>
  ELSE IF Head(deals).id \in seen THEN FirstById(Tail(deals), seen)
  ELSE <<Head(deals)>> \o FirstById(Tail(deals), seen \cup {Head(deals).id})

\* C4: when the company name, lower-cased and trimmed, is a key of the deal
\* index, the matched deals are exactly the deals under that key, without
\* repetitions, and the keyword match adds nothing.
C4_ExactKeyMatch ==
  journeys # <<>> =>
    LET key == Strip(Lower(company_name))
    IN  key \in DOMAIN deal_index
          => matching_deals = FirstById(deal_index[key], {})

\* The timestamps of the journeys
Stamps ==
  {journeys[k].first_touch : k \in 1..Len(journeys)}
    \cup {journeys[k].cognito_signup : k \in 1..Len(journeys)}

Parseable(d) == Truthy(d) /\ fromisoformat(ReplaceZ(d)).ok

\* C5: days_between is symmetric on parseable timestamps, and 0 on equal ones.
C5_DaysBetweenSymmetric ==
  \A a, b \in {d \in Stamps : Parseable(d)} :
    /\ days_between(a, b) = days_between(b, a)
    /\ days_between(a, a) = <<0>>

\* C6: a journey without CRM contact and without deal has lifecycle_stage
\* "Unknown", deal_stage None, and its report prints "No HubSpot data found
\* for this tenant".
C6_NoDataRendered ==
  \A k \in 1..Len(report) :
    (journeys[k].hs_contacts = <<>> /\ journeys[k].all_deals = <<>>)
      => /\ journeys[k].lifecycle_stage = "Unknown"
         /\ journeys[k].deal_stage = None
         /\ report[k].no_data_line

\* C7: no request is sent without a bearer token.
C7_NoRequestWithoutToken ==
  \A i \in 1..Len(requests) : requests[i].bearer # ""

\* The requests that got a 2xx answer, on the run so far
Answered(i) ==
  /\ i \notin Range(stderr)
  /\ ~(pc = "aborted" /\ i = Len(requests))

\* C8: a failed request is absorbed. The run is not aborted; the contact of
\* an email is known exactly when a batch with the email was answered.
C8_FailuresAbsorbed ==
  /\ pc # "aborted"
  /\ pc # "search" =>
       \A k \in 1..Len(remote_contacts) :
         LET email == Lower(remote_contacts[k].email)
         IN  email \in DOMAIN hs_contacts
               <=> \E i \in 1..Len(requests) :
                     /\ requests[i].method = "POST"
                     /\ email \in requests[i].emails
                     /\ Answered(i)

Lacking(j) == ~Truthy(j.first_touch) /\ ~Truthy(j.cognito_signup)

\* C9: the sorted journeys ascend by first touch, else signup, else the
\* sentinel, and the journeys with neither timestamp come after all others.
C9_SortedLackingLast ==
  pc \in {"report", "stats", "done"} =>
    /\ \A i, k \in 1..Len(journeys) :
         i < k => ~StrLess(SortKey(journeys[k]), SortKey(journeys[i]))
    /\ \A i, k \in 1..Len(journeys) :
         (Lacking(journeys[i]) /\ ~Lacking(journeys[k])) => k < i

RECURSIVE ChainFrom(_, _)
\* The pages the cursors lead through from the first page, up to `fuel` pages
ChainFrom(k, fuel) ==
  IF fuel = 0 THEN <<>>
  ELSE <<k>> \o (IF remote_pages[k].next = 0 THEN <<>>
                 ELSE ChainFrom(remote_pages[k].next, fuel - 1))

Chain == ChainFrom(1, MaxFetch)
ChainEnds == remote_pages[Chain[Len(Chain)]].next = 0

RECURSIVE ResultsOf(_)
ResultsOf(pages) ==
  IF pages = <<>> THEN <<>>
  ELSE remote_pages[Head(pages)].results \o ResultsOf(Tail(pages))

PageRequests == {i \in 1..Len(requests) : requests[i].method = "GET"}

C10_Safety ==
  (pc # "aborted" /\ \A i \in PageRequests : Answered(i)) =>
    /\ Cardinality(PageRequests) = page
    /\ page <= Len(Chain)
    /\ all_deals = ResultsOf(SubSeq(Chain, 1, page))
    /\ (pc = "fetch" /\ page > 0) =>
         (after # 0 /\ after = remote_pages[Chain[page]].next)
    /\ pc \notin {"search", "fetch"} => (page = Len(Chain) /\ ChainEnds)

\* C10: while every page request succeeds, fetch_all_deals requests the pages
\* the cursors lead through, one request each, extends all_deals by their
\* results in that order, and stops at the first page without next cursor;
\* when the cursors lead to such a page, the loop ends.
C10_Pagination ==
  /\ []C10_Safety
  /\ (pc = "fetch" /\ ChainEnds) ~> (pc # "fetch")

\* The loop ended after several pages, before it had seen every page of the
\* CRM, with the deals of the pages it requested
C10_Witness ==
  /\ pc = "index"
  /\ stderr = <<>>
  /\ page >= 2
  /\ page < Len(remote_pages)
  /\ Len(all_deals) >= 2

\* From the first tenant's iteration to the end of main
Synthesizing == pc \in {"journeys", "sort", "report", "stats"}

\* C11: once the contact map and the deal index are built, no step of the
\* loop over the tenants, nor any later step, changes either of them: no key
\* is added or removed and no entry is modified.
C11_SharedReadOnly ==
  [][Synthesizing => (deal_index' = deal_index /\ hs_contacts' = hs_contacts)]_vars

\* A tenant was processed whose company name is no key of the index and has
\* a long word that is no key either, with contacts and deals present
C11_Witness ==
  /\ JustBuilt
  /\ deal_index # EmptyMap
  /\ hs_contacts # EmptyMap
  /\ LET cn_lower == Lower(company_name)
         words == Split(cn_lower)
     IN  /\ cn_lower \notin DOMAIN deal_index
         /\ \E i \in 1..Len(words) :
              Len(words[i]) > 3 /\ words[i] \notin DOMAIN deal_index

\* The words of a str that the index and the keyword match consider
LongWords(s) == SelectSeq(Split(s), LAMBDA w : Len(w) > 3)

RECURSIVE EntriesOf(_)
\* The index entries of the words that are keys, one after the other
EntriesOf(words) ==
  IF words = <<>> THEN <<>>
  ELSE (IF Head(words) \in DOMAIN deal_index THEN deal_index[Head(words)]
                                             ELSE <<>>)
       \o EntriesOf(Tail(words))

\* The exact match on the last tenant's company name found no deal
KeywordFallbackRan ==
  LET cn_lower == Lower(company_name)
  IN  cn_lower \in DOMAIN deal_index => deal_index[cn_lower] = <<>>

\* C12: every deal registered under a word of more than 3 characters of the
\* company name has that word inside its lower-cased deal name, so the
\* relevance test rejects no candidate: the keyword match yields the index
\* entries of those words that are keys, in order, without repetitions of an id.
C12_GuardNeverRejects ==
  JustBuilt =>
    LET words == LongWords(Lower(company_name))
    IN  /\ \A i \in 1..Len(words) :
             words[i] \in DOMAIN deal_index =>
               \A k \in 1..Len(deal_index[words[i]]) :
                 Contains(words[i],
                          Lower(OrElse(deal_index[words[i]][k].dealname, <<>>)))
        /\ KeywordFallbackRan =>
             matching_deals = FirstById(EntriesOf(words), {})

\* The keyword match found deals under two words of a company name that
\* is contained in the name of none of them
C12_Witness ==
  /\ JustBuilt
  /\ KeywordFallbackRan
  /\ Len(matching_deals) >= 2
  /\ LET words == LongWords(Lower(company_name))
     IN  \E i, k \in 1..Len(words) :
           /\ words[i] # words[k]
           /\ words[i] \in DOMAIN deal_index
           /\ words[k] \in DOMAIN deal_index
  /\ \A i \in 1..Len(matching_deals) :
       ~Contains(Lower(company_name), Lower(matching_deals[i].dealname))

====
